---- MODULE Spec2Model ----
(***************************************************************************)
(* Model of the detection pass of src/src/utils/detect.js (detectImage and *)
(* its helpers preprocessing, divStride, overflowBoxes).                   *)
(*                                                                         *)
(* A pass is an async function: everything between two awaits runs as one  *)
(* atomic step, so there is one action per resumption point: the start of  *)
(* the pass (up to the await of session.net.run), the settlement of        *)
(* net.run, of nms.run and of each mask.run (fulfilled or rejected).       *)
(*                                                                         *)
(* Numbers.  Row coordinates are integers.  box[0] - 0.5 * box[2] may be a *)
(* half, so the box before upscaling is kept in HALF units (twice its      *)
(* value).  xRatio and yRatio are doubles: each is kept as the pair        *)
(* <<num, den>> of the integers whose quotient it is, and stands for the   *)
(* double nearest to num / den (Divide).  box * ratio is the double        *)
(* product, rounded once more (Times), and Math.floor is taken of that     *)
(* rounded product: for a ratio that is not a binary fraction (416 / 96)   *)
(* this can be one less than the floor of the exact quotient.  Scores are  *)
(* in hundredths.                                                          *)
(***************************************************************************)
EXTENDS Integers, Sequences, FiniteSets, TLC

(* ---------------------------- bounds ----------------------------------- *)
\* most rows the selector stage returns in one pass
MaxRows == 2
\* widest selector row (4 box + numClass scores + mask coefficients)
MaxRowWidth == 7
\* box coordinates and bounds given to overflowBoxes lie in -MaxCoord..MaxCoord
MaxCoord == 3
\* image dimensions given to divStride lie in 0..MaxDim
MaxDim == 40
\* strides given to divStride: 1..MaxStride, and the program's stride
MaxStride == 4

(* ------------------------ program constants ---------------------------- *)
\* App.js:18  modelInputShape
modelInputShape == <<1, 3, 640, 640>>
\* App.js:19-21  topk, iouThreshold, scoreThreshold (thresholds in hundredths)
topk == 100
iouThreshold == 45
scoreThreshold == 25
\* detect.js:7  numClass = labels.length
numClass == 2
\* detect.js:135  stride = 32 (default parameter of preprocessing)
Stride == 32
\* detect.js:106  alpha handed to Colors.hexToRgba
MaskAlpha == 120

(* ------------------------------ inputs --------------------------------- *)
\* passes that exist in the state / passes this specification starts
AllPasses == {1, 2}
Passes == {1}
\* <<width, height>> of the images a user may load
ImagePool == {<<640, 640>>, <<320, 640>>, <<100, 50>>, <<96, 416>>}
\* [cx, cy, w, h] of the rows the selector stage may return
BoxPool == {<<100, 100, 50, 50>>, <<500, 100, 100, 50>>, <<10, 630, 41, 40>>}
\* class scores (hundredths) of the rows the selector stage may return
ScorePool == {<<90, 10>>, <<30, 30>>, <<10, 90>>}
\* pixels (0-based) the mask stage may paint in one call
MaskPixelChoices == {{}, {0}, {0, 1}}
\* row widths: one short of 4 + numClass up to MaxRowWidth
RowWidths == (4 + numClass - 1)..MaxRowWidth

(* --------------------------- JS primitives ----------------------------- *)
Min(a, b) == IF a <= b THEN a ELSE b
Max(a, b) == IF a >= b THEN a ELSE b

\* Array.prototype.slice(from, to) on a 0-based array, clamped to its length
Slice(s, from, to) ==
  LET lo == Min(Max(from, 0), Len(s))
      hi == Min(Max(to, 0), Len(s))
  IN  IF hi <= lo THEN <<>> ELSE [i \in 1..(hi - lo) |-> s[lo + i]]

\* Math.max(...s) for a non-empty s
MathMax(s) == CHOOSE m \in {s[i] : i \in 1..Len(s)} : \A i \in 1..Len(s) : s[i] <= m

\* lastIndexOf in place of indexOf
LastIndexOf(s, v) ==
  IF \E i \in 1..Len(s) : s[i] = v
  THEN (CHOOSE i \in 1..Len(s) : s[i] = v /\ \A j \in (i + 1)..Len(s) : s[j] # v) - 1
  ELSE -1

\* Array.prototype.indexOf: 0-based index of the first occurrence, -1 if none
IndexOf(s, v) ==
  IF \E i \in 1..Len(s) : s[i] = v
  THEN (CHOOSE i \in 1..Len(s) : s[i] = v /\ \A j \in 1..(i - 1) : s[j] # v) - 1
  ELSE -1

(* Numbers are IEEE-754 doubles.  A finite double is kept as                *)
(* [sign, mant, exp] with the value sign * mant * 2^exp.  mant has up to    *)
(* 53 binary digits, more than an integer of the model holds, so it is kept *)
(* as a sequence of limbs of LimbBits binary digits, least significant      *)
(* first.  Results are rounded to nearest, ties to even.                    *)
\* binary digits in the significand of a double
Precision == 53
\* binary digits in a limb, and the limbs of a quotient after the point
LimbBits == 13
LimbBase == 2^LimbBits
FracLimbs == 5

\* limb i of a (1-based), 0 beyond its length
Limb(a, i) == IF i \in 1..Len(a) THEN a[i] ELSE 0

\* the limbs of an integer 0 <= n < 2^31
Big(n) == <<n % LimbBase, (n \div LimbBase) % LimbBase, n \div (LimbBase * LimbBase)>>

\* the integer a stands for, when it is below 2^31
ToInt(a) == Limb(a, 1) + LimbBase * Limb(a, 2) + LimbBase * LimbBase * Limb(a, 3)

\* number of binary digits of a whose last nonzero limb is limb top
BitLenAt(a, top) ==
  LimbBits * (top - 1)
    + (CHOOSE l \in 1..LimbBits : 2^(l - 1) <= a[top] /\ a[top] < 2^l)

\* number of binary digits of a (0 for zero)
BitLen(a) ==
  IF \A i \in 1..Len(a) : a[i] = 0 THEN 0
  ELSE BitLenAt(a, CHOOSE i \in 1..Len(a) :
                     a[i] # 0 /\ \A j \in (i + 1)..Len(a) : a[j] = 0)

\* binary digit i of a (digit 0 is the least significant)
Bit(a, i) == (Limb(a, i \div LimbBits + 1) \div 2^(i % LimbBits)) % 2

\* a without its q least significant limbs and j < LimbBits more digits
ShiftLimbs(a, q, j) ==
  [i \in 1..Max(Len(a) - q, 0) |->
     (Limb(a, i + q) \div 2^j) + (Limb(a, i + q + 1) % 2^j) * 2^(LimbBits - j)]

\* a without its d least significant binary digits
ShiftRight(a, d) == ShiftLimbs(a, d \div LimbBits, d % LimbBits)

\* the d least significant binary digits of a are all 0
LowZero(a, d) ==
  /\ \A i \in 1..Len(a) : i <= d \div LimbBits => a[i] = 0
  /\ Limb(a, d \div LimbBits + 1) % 2^(d % LimbBits) = 0

\* a + 1, for a whose first k limbs are full and whose next limb is not
BigIncAt(a, k) ==
  [i \in 1..Max(Len(a), k + 1) |->
     IF i <= k THEN 0 ELSE Limb(a, i) + (IF i = k + 1 THEN 1 ELSE 0)]

\* a + 1
BigInc(a) ==
  BigIncAt(a, CHOOSE k \in 0..Len(a) :
                /\ \A i \in 1..k : a[i] = LimbBase - 1
                /\ k < Len(a) => a[k + 1] # LimbBase - 1)

\* a * n + carry, for 0 <= carry <= n < 2^17
RECURSIVE BigTimes(_, _, _)
BigTimes(a, n, carry) ==
  IF a = <<>> THEN Big(carry)
  ELSE <<(a[1] * n + carry) % LimbBase>>
         \o BigTimes(Tail(a), n, (a[1] * n + carry) \div LimbBase)

\* whole (the limbs of the integer part) with the first n limbs of r / c
\* after the point put below it, for 0 <= r < c < 2^18
RECURSIVE Fraction(_, _, _, _)
Fraction(r, c, n, whole) ==
  IF n = 0 THEN whole
  ELSE Fraction((r * LimbBase) % c, c, n - 1, <<(r * LimbBase) \div c>> \o whole)

\* the remainder left after the first n limbs of r / c after the point
RECURSIVE Remainder(_, _, _)
Remainder(r, c, n) ==
  IF n = 0 THEN r ELSE Remainder((r * LimbBase) % c, c, n - 1)

\* kept, or the next integer: half is the first digit cut off, more: some
\* later digit is not 0
Nearest(kept, half, more) ==
  IF half = 1 /\ (more \/ kept[1] % 2 = 1) THEN BigInc(kept) ELSE kept

\* a without its d last binary digits, rounded to nearest, ties to even
RoundAt(a, d, sticky) ==
  IF d <= 0 THEN [mant |-> a, shift |-> 0]
  ELSE [mant  |-> Nearest(ShiftRight(a, d), Bit(a, d - 1),
                          sticky \/ ~LowZero(a, d - 1)),
        shift |-> d]

\* a cut to its Precision leading binary digits, rounded to nearest, ties
\* to even, and the number of digits cut; sticky: something nonzero lies
\* beyond the last digit of a
RoundBig(a, sticky) == RoundAt(a, BitLen(a) - Precision, sticky)

\* the double sign * r.mant * 2^(exp + r.shift)
Double(sign, r, exp) == [sign |-> sign, mant |-> r.mant, exp |-> exp + r.shift]

\* the double of an integer, or of an integer and a half, given in half units
HalfDouble(h) ==
  [sign |-> IF h < 0 THEN -1 ELSE 1,
   mant |-> Big(IF h < 0 THEN -h ELSE h), exp |-> -1]

\* m / c for integers m >= c >= 1: the double nearest to the quotient
Divide(m, c) ==
  Double(1, RoundBig(Fraction(m % c, c, FracLimbs, Big(m \div c)),
                     Remainder(m % c, c, FracLimbs) # 0),
         -(FracLimbs * LimbBits))

\* a * b for a box coordinate a (a double of fewer than 17 binary digits)
\* and a double b: the exact product, rounded to a double
Times(a, b) ==
  Double(a.sign * b.sign, RoundBig(BigTimes(b.mant, ToInt(a.mant), 0), FALSE),
         a.exp + b.exp)

\* the integer part of a double of size mant * 2^(-n), n > 0, rounded down
FloorAt(sign, mant, n) ==
  IF sign >= 0 \/ LowZero(mant, n) THEN sign * ToInt(ShiftRight(mant, n))
  ELSE -(ToInt(ShiftRight(mant, n)) + 1)

\* Math.floor(d) of a double d below 2^31 in size
MathFloor(d) ==
  IF d.exp >= 0 THEN d.sign * ToInt(d.mant) * 2^(d.exp)
  ELSE FloorAt(d.sign, d.mant, -d.exp)

(* --------------------------- detect.js helpers ------------------------- *)
\* line 178 with > for >=: an exact half is rounded down
divStride1Strict(stride, width) ==
  IF width % stride # 0
  THEN IF 2 * (width % stride) > stride
       THEN ((width \div stride) + 1) * stride
       ELSE (width \div stride) * stride
  ELSE width

\* divStride, one axis (the two axes run the same code)
divStride1(stride, width) ==
  IF width % stride # 0
  THEN IF 2 * (width % stride) >= stride
       THEN ((width \div stride) + 1) * stride
       ELSE (width \div stride) * stride
  ELSE width

divStride(stride, width, height) ==
  <<divStride1(stride, width), divStride1(stride, height)>>

\* lines 197-198 without the offset: w and h are cut to maxSize itself
overflowBoxesNoOffset(box, maxSize) ==
  LET b0 == IF box[1] >= 0 THEN box[1] ELSE 0
      b1 == IF box[2] >= 0 THEN box[2] ELSE 0
      b2 == IF b0 + box[3] <= maxSize THEN box[3] ELSE maxSize
      b3 == IF b1 + box[4] <= maxSize THEN box[4] ELSE maxSize
  IN  <<b0, b1, b2, b3>>

\* lines 197-198 testing the x and y that came in, not the clamped ones
overflowBoxesUnclamped(box, maxSize) ==
  LET b0 == IF box[1] >= 0 THEN box[1] ELSE 0
      b1 == IF box[2] >= 0 THEN box[2] ELSE 0
      b2 == IF box[1] + box[3] <= maxSize THEN box[3] ELSE maxSize - b0
      b3 == IF box[2] + box[4] <= maxSize THEN box[4] ELSE maxSize - b1
  IN  <<b0, b1, b2, b3>>

\* overflowBoxes(box, maxSize): the four assignments, in order
overflowBoxes(box, maxSize) ==
  LET b0 == IF box[1] >= 0 THEN box[1] ELSE 0
      b1 == IF box[2] >= 0 THEN box[2] ELSE 0
      b2 == IF b0 + box[3] <= maxSize THEN box[3] ELSE maxSize - b0
      b3 == IF b1 + box[4] <= maxSize THEN box[4] ELSE maxSize - b1
  IN  <<b0, b1, b2, b3>>

\* preprocessing: only the part that decides xRatio and yRatio
\* (the pixel work is done by the image-matrix runtime)
preprocessing(image, stride) ==
  LET wh      == divStride(stride, image[1], image[2])
      cols    == wh[1]
      rows    == wh[2]
      maxSize == Max(rows, cols)
  IN  [xRatio |-> <<maxSize, cols>>, yRatio |-> <<maxSize, rows>>]

(* ------------------------------ palette -------------------------------- *)
\* the class colours, cycled by index
Palette == <<"colour0", "colour1", "colour2">>

\* Colors.get(i)
colorsGet(i) == Palette[(i % Len(Palette)) + 1]

\* Colors.hexToRgba(color, alpha): the colour's r, g, b followed by alpha
hexToRgba(color, alpha) == <<color, alpha>>

(* ------------------------------ tensors -------------------------------- *)
\* line 49 with three channels allocated instead of four
ZeroOverlayRGB(id, modelHeight, modelWidth) ==
  [id |-> id, dims |-> <<modelHeight, modelWidth, 4>>,
   len |-> modelHeight * modelWidth * 3, px |-> {}]

\* new Tensor("uint8", new Uint8Array(h * w * 4), [h, w, 4]).  A buffer is
\* its length and the set px of <<pixel, rgba>> of the pixels that are not
\* zero; a fresh Uint8Array has none.
ZeroOverlay(id, modelHeight, modelWidth) ==
  [id |-> id, dims |-> <<modelHeight, modelWidth, 4>>,
   len |-> modelHeight * modelWidth * 4, px |-> {}]

NoOverlay == [id |-> 0, dims |-> <<0, 0, 0>>, len |-> 0, px |-> {}]

\* the overlay the mask stage returns: a new tensor of the same shape in
\* which the pixels of P carry rgba over what overlayIn held
Painted(id, overlayIn, P, rgba) ==
  [id |-> id, dims |-> overlayIn.dims, len |-> overlayIn.len,
   px |-> {e \in overlayIn.px : e[1] \notin P} \cup {<<q, rgba>> : q \in P}]

\* a selector output: dims [1, n, width] and the flat row-major data
NoSelected == [dims |-> <<1, 0, 0>>, data |-> <<>>]

RECURSIVE Flatten(_)
Flatten(rows) == IF rows = <<>> THEN <<>> ELSE Head(rows) \o Flatten(Tail(rows))

\* the rows the selector stage may return, for one row width
RowPool(width) ==
  {Slice(b \o sc \o <<7, 8, 9>>, 0, width) : b \in BoxPool, sc \in ScorePool}

RECURSIVE SeqsOf(_, _)
SeqsOf(S, n) ==
  IF n = 0 THEN {<<>>}
  ELSE {Append(t, x) : t \in SeqsOf(S, n - 1), x \in S}

SelectedPool ==
  UNION {{[dims |-> <<1, n, width>>, data |-> Flatten(rows)] :
            rows \in SeqsOf(RowPool(width), n)} :
         n \in 0..MaxRows, width \in RowWidths}

(* --------------------------- the row decoder --------------------------- *)
\* line 57 with idx left out of the slice: every iteration reads row 0
RowDataStale(selected, idx) ==
  Slice(selected.data, 0, selected.dims[3])

\* detect.js:57  row idx of the selector output
RowData(selected, idx) ==
  Slice(selected.data, idx * selected.dims[3], (idx + 1) * selected.dims[3])

\* lines 66-67 without the 0.5: the whole width is taken off the centre
ModelBoxNoHalf(data, maxSize) ==
  overflowBoxes(<<2 * data[1] - 2 * data[3], 2 * data[2] - 2 * data[4],
                  2 * data[3], 2 * data[4]>>, 2 * maxSize)

\* detect.js:64-72  centre to corner, clipped; in half units
ModelBox(data, maxSize) ==
  overflowBoxes(<<2 * data[1] - data[3], 2 * data[2] - data[4],
                  2 * data[3], 2 * data[4]>>, 2 * maxSize)

\* detect.js:76-79  Math.floor(box[i] * ratio) for the four coordinates;
\* box in half units, xr and yr the doubles xRatio and yRatio
Upscale(box, xr, yr) ==
  <<MathFloor(Times(HalfDouble(box[1]), xr)), MathFloor(Times(HalfDouble(box[2]), yr)),
    MathFloor(Times(HalfDouble(box[3]), xr)), MathFloor(Times(HalfDouble(box[4]), yr))>>

\* detect.js:74-82  upscaled and clipped; box in half units, the ratios
\* as the doubles preprocessing computed (lines 146, 148).  The upscaled
\* box is bound to up, so that it is computed once.
UpscaleBox(box, xRatio, yRatio, maxSize) ==
  CHOOSE clipped \in
    {overflowBoxes(up, maxSize) :
       up \in {Upscale(box, xr, yr) : xr \in {Divide(xRatio[1], xRatio[2])},
                                      yr \in {Divide(yRatio[1], yRatio[2])}}} : TRUE

\* detect.js:57-108  one loop body up to the mask call: the Detection
\* pushed to boxes and the two tensors built for the mask stage
DecodeRow(selected, idx, maxSize, xRatio, yRatio) ==
  LET data   == RowData(selected, idx)
      scores == Slice(data, 4, 4 + numClass)
      score  == MathMax(scores)
      label  == IndexOf(scores, score)
      color  == colorsGet(label)
      box    == ModelBox(data, maxSize)
      up     == UpscaleBox(box, xRatio, yRatio, maxSize)
  IN  [detection |-> [label |-> label, probability |-> score,
                      color |-> color, bounding |-> up],
       mask      |-> box \o Slice(data, 4 + numClass, Len(data)),
       config    |-> <<maxSize>> \o up \o hexToRgba(color, MaskAlpha)]

(* ------------------------------- state --------------------------------- *)
VARIABLES
  pc,      \* pc[p]: where pass p is suspended: "idle" (not started), "net",
           \* "nms", "mask" (awaiting that stage), "done" (returned),
           \* "aborted" (an await threw and detectImage rejected)
  loc,     \* loc[p]: the local variables of pass p
  input,   \* input[p]: the cv.Mat of pass p: "none", "live" or "deleted"
  canvas,  \* the canvas both the overlay and the boxes are drawn on
  log,     \* every stage call, return and failure so far, in order
  nextId,  \* identity of the next tensor object to be created
  app,     \* the App component: the runtime-initialised callback's position,
           \* the session state and the image element
  calc     \* one evaluation of a helper function: its arguments and results

vars == <<pc, loc, input, canvas, log, nextId, app, calc>>

\* the per-pass and canvas part of the state
passVars == <<pc, loc, input, canvas, log, nextId>>

\* App.js:9-11 once line 44 has run: session set, no image chosen yet
AppReady == [init |-> "ready", session |-> TRUE, image |-> FALSE,
             pending |-> <<0, 0>>]

\* no helper evaluation in progress
NoCalc == [fn |-> "none", arg |-> <<>>, step |-> 0, out |-> <<>>, again |-> <<>>]

NoLoc ==
  [image |-> <<0, 0>>, modelWidth |-> 0, modelHeight |-> 0, maxSize |-> 0,
   xRatio |-> <<1, 1>>, yRatio |-> <<1, 1>>, selected |-> NoSelected,
   idx |-> 0, boxes |-> <<>>, overlay |-> NoOverlay,
   inputShape |-> <<>>, config |-> <<>>]

\* canvas after ctx.clearRect
BlankCanvas ==
  [put |-> FALSE, by |-> 0, from |-> 0, width |-> 0, height |-> 0, len |-> 0,
   px |-> {}, boxes |-> <<>>]

\* one entry of the log: row is the loop index of a mask event (-1 for the
\* other stages), ovl the overlay tensor given to or returned by the mask
\* stage, det and cfg the detection and config tensors of a mask call
Event(p, ev, stage, row, ovl, det, cfg) ==
  [pass |-> p, ev |-> ev, stage |-> stage, row |-> row, ovl |-> ovl,
   det |-> det, cfg |-> cfg]

CallEv(p, stage) == Event(p, "call", stage, -1, NoOverlay, <<>>, <<>>)
RetEv(p, stage, row, ovl) == Event(p, "ret", stage, row, ovl, <<>>, <<>>)
FailEv(p, stage, row) == Event(p, "fail", stage, row, NoOverlay, <<>>, <<>>)

Init ==
  /\ pc = [p \in AllPasses |-> "idle"]
  /\ loc = [p \in AllPasses |-> NoLoc]
  /\ input = [p \in AllPasses |-> "none"]
  /\ canvas = BlankCanvas
  /\ log = <<>>
  /\ nextId = 1
  /\ app = AppReady
  /\ calc = NoCalc

(* ------------------------------ the pass ------------------------------- *)
\* detect.js:56  the loop condition
LoopCond(idx, selected) == idx < selected.dims[2]

\* line 116 left out: the overlay is never replaced
NextOverlayStale(overlay, mask_filter) == overlay

\* detect.js:116  overlay = mask_filter
NextOverlay(overlay, mask_filter) == mask_filter

\* detect.js:119-124  after the loop: the overlay is put on the canvas, the
\* boxes are handed to renderBoxes and the input Mat is deleted
Render(p, l) ==
  /\ canvas' = [put |-> TRUE, by |-> p, from |-> l.overlay.id,
                width |-> l.modelHeight, height |-> l.modelWidth,
                len |-> l.overlay.len, px |-> l.overlay.px, boxes |-> l.boxes]
  /\ input' = [input EXCEPT ![p] = "deleted"]
  /\ pc' = [pc EXCEPT ![p] = "done"]

\* Loop without the await of line 109: the call for the next row is issued
\* while the call for this row is still running
LoopNoAwait(p, l, lg) ==
  IF LoopCond(l.idx, l.selected)
  THEN LET d    == DecodeRow(l.selected, l.idx, l.maxSize, l.xRatio, l.yRatio)
           more == LoopCond(l.idx + 1, l.selected)
           d2   == DecodeRow(l.selected, l.idx + 1, l.maxSize, l.xRatio, l.yRatio)
           c1   == Event(p, "call", "mask", l.idx, l.overlay, d.mask, d.config)
           c2   == Event(p, "call", "mask", l.idx + 1, l.overlay, d2.mask, d2.config)
       IN  /\ loc' = [loc EXCEPT ![p] = [l EXCEPT !.boxes = Append(@, d.detection)]]
           /\ log' = IF more THEN lg \o <<c1, c2>> ELSE Append(lg, c1)
           /\ pc' = [pc EXCEPT ![p] = "mask"]
           /\ UNCHANGED <<input, canvas>>
  ELSE /\ loc' = [loc EXCEPT ![p] = l]
       /\ log' = lg
       /\ Render(p, l)

\* detect.js:56-125  from the loop test to the next await or to the return.
\* locals and lastLog are the locals and the log as the resuming step left
\* them; each is bound to its value once, as l and lg.
Loop(p, locals, lastLog) ==
  \E l \in {locals}, lg \in {lastLog} :
    IF LoopCond(l.idx, l.selected)
    THEN \E d \in {DecodeRow(l.selected, l.idx, l.maxSize, l.xRatio, l.yRatio)} :
           /\ loc' = [loc EXCEPT ![p] = [l EXCEPT !.boxes = Append(@, d.detection)]]
           /\ log' = Append(lg, Event(p, "call", "mask", l.idx, l.overlay,
                                      d.mask, d.config))
           /\ pc' = [pc EXCEPT ![p] = "mask"]
           /\ UNCHANGED <<input, canvas>>
    ELSE /\ loc' = [loc EXCEPT ![p] = l]
         /\ log' = lg
         /\ Render(p, l)

\* detect.js:28-44  the locals of a pass up to the call of net.run: the
\* model size taken from shape, the ratios preprocessing returns and the
\* nms config tensor [numClass, topk, iouThreshold, scoreThreshold]
DetectLocals(image, k, iou, score, shape) ==
  LET modelWidth  == shape[3]
      modelHeight == shape[4]
      pre         == preprocessing(image, Stride)
  IN  [NoLoc EXCEPT !.image = image,
                    !.modelWidth = modelWidth,
                    !.modelHeight = modelHeight,
                    !.maxSize = Max(modelWidth, modelHeight),
                    !.xRatio = pre.xRatio,
                    !.yRatio = pre.yRatio,
                    !.inputShape = shape,
                    !.config = <<numClass, k, iou, score>>]

\* App.js:73-81  the locals of a pass the onLoad handler starts
PassLocals(image) ==
  DetectLocals(image, topk, iouThreshold, scoreThreshold, modelInputShape)

\* StartPass without the await of line 45: nms.run is called at once
StartPassNoAwait(p, image) ==
  /\ pc[p] = "idle"
  /\ loc' = [loc EXCEPT ![p] = PassLocals(image)]
  /\ canvas' = BlankCanvas
  /\ input' = [input EXCEPT ![p] = "live"]
  /\ log' = log \o <<CallEv(p, "net"), CallEv(p, "nms")>>
  /\ pc' = [pc EXCEPT ![p] = "nms"]
  /\ UNCHANGED nextId

\* detect.js:28-45  detectImage up to the await of session.net.run: the
\* canvas is cleared, the image preprocessed into the input Mat, and
\* net.run is called
StartPass(p, image) ==
  /\ pc[p] = "idle"
  /\ loc' = [loc EXCEPT ![p] = PassLocals(image)]
  /\ canvas' = BlankCanvas
  /\ input' = [input EXCEPT ![p] = "live"]
  /\ log' = Append(log, CallEv(p, "net"))
  /\ pc' = [pc EXCEPT ![p] = "net"]
  /\ UNCHANGED nextId

\* detect.js:45-46  net.run fulfilled: nms.run is called and awaited
NetReturn(p) ==
  /\ pc[p] = "net"
  /\ log' = log \o <<RetEv(p, "net", -1, NoOverlay),
                      Event(p, "call", "nms", -1, NoOverlay, <<>>, loc[p].config)>>
  /\ pc' = [pc EXCEPT ![p] = "nms"]
  /\ UNCHANGED <<loc, input, canvas, nextId>>

\* detect.js:45  net.run rejected: the await throws out of detectImage
NetFail(p) ==
  /\ pc[p] = "net"
  /\ log' = Append(log, FailEv(p, "net", -1))
  /\ pc' = [pc EXCEPT ![p] = "aborted"]
  /\ UNCHANGED <<loc, input, canvas, nextId>>

\* NmsReturn with overlay hoisted to module scope: a pass that finds the
\* overlay of another pass goes on with that one
NmsReturnSharedOverlay(p, selected) ==
  /\ pc[p] = "nms"
  /\ nextId' = nextId + 1
  /\ Loop(p,
          [loc[p] EXCEPT !.selected = selected,
                         !.boxes = <<>>,
                         !.overlay =
                           IF \E q \in AllPasses \ {p} : loc[q].overlay.id # 0
                           THEN loc[CHOOSE q \in AllPasses \ {p} :
                                      loc[q].overlay.id # 0].overlay
                           ELSE ZeroOverlay(nextId, loc[p].modelHeight,
                                            loc[p].modelWidth),
                         !.idx = 0],
          Append(log, RetEv(p, "nms", -1, NoOverlay)))

\* detect.js:46-56  nms.run fulfilled with selected: boxes and the overlay
\* are created and the loop is entered
NmsReturn(p, selected) ==
  /\ pc[p] = "nms"
  /\ nextId' = nextId + 1
  /\ Loop(p,
          [loc[p] EXCEPT !.selected = selected,
                         !.boxes = <<>>,
                         !.overlay = ZeroOverlay(nextId, loc[p].modelHeight,
                                                 loc[p].modelWidth),
                         !.idx = 0],
          Append(log, RetEv(p, "nms", -1, NoOverlay)))

\* detect.js:46  nms.run rejected
NmsFail(p) ==
  /\ pc[p] = "nms"
  /\ log' = Append(log, FailEv(p, "nms", -1))
  /\ pc' = [pc EXCEPT ![p] = "aborted"]
  /\ UNCHANGED <<loc, input, canvas, nextId>>

\* detect.js:109-114  the mask call pass p is awaiting: the last mask call
\* of p in the log (other passes may have logged since)
MaskCallOf(p) ==
  log[CHOOSE i \in 1..Len(log) :
        /\ log[i].pass = p /\ log[i].ev = "call" /\ log[i].stage = "mask"
        /\ \A j \in (i + 1)..Len(log) :
             ~(log[j].pass = p /\ log[j].ev = "call" /\ log[j].stage = "mask")]

\* MaskReturn without the idx++ of line 56: the same row is taken again
MaskReturnNoIncr(p, P) ==
  /\ pc[p] = "mask"
  /\ LET l           == loc[p]
         call        == MaskCallOf(p)
         mask_filter == Painted(nextId, l.overlay, P,
                                Slice(call.cfg, 5, Len(call.cfg)))
     IN  /\ nextId' = nextId + 1
         /\ Loop(p,
                 [l EXCEPT !.overlay = NextOverlay(l.overlay, mask_filter)],
                 Append(log, RetEv(p, "mask", l.idx, mask_filter)))

\* detect.js:109-117  mask.run fulfilled: the stage returns a new overlay
\* tensor painted over the one it was given; overlay is updated, idx++
MaskReturn(p, P) ==
  /\ pc[p] = "mask"
  /\ LET l           == loc[p]
         call        == MaskCallOf(p)
         mask_filter == Painted(nextId, l.overlay, P,
                                Slice(call.cfg, 5, Len(call.cfg)))
     IN  /\ nextId' = nextId + 1
         /\ Loop(p,
                 [l EXCEPT !.overlay = NextOverlay(l.overlay, mask_filter),
                           !.idx = l.idx + 1],
                 Append(log, RetEv(p, "mask", l.idx, mask_filter)))

\* a rejected mask.run caught and swallowed: what was decoded so far is drawn
MaskFailRenders(p) ==
  /\ pc[p] = "mask"
  /\ log' = Append(log, FailEv(p, "mask", loc[p].idx))
  /\ Render(p, loc[p])
  /\ UNCHANGED <<loc, nextId>>

\* detect.js:109  mask.run rejected
MaskFail(p) ==
  /\ pc[p] = "mask"
  /\ log' = Append(log, FailEv(p, "mask", loc[p].idx))
  /\ pc' = [pc EXCEPT ![p] = "aborted"]
  /\ UNCHANGED <<loc, input, canvas, nextId>>

\* a smaller set of selector outputs: up to
\* MaxRows rows, each one of two rows with a mask coefficient
LiveSelectedPool ==
  UNION {{[dims |-> <<1, n, 4 + numClass + 1>>, data |-> Flatten(rows)] :
            rows \in SeqsOf({<<100, 100, 50, 50, 90, 10, 7>>,
                             <<10, 630, 41, 40, 30, 30, 7>>}, n)} :
         n \in 0..MaxRows}

(* ------------------- detectImage with any configuration --------------- *)
\* detect.js:35  new Tensor("float32", input.data32F, inputShape) throws
\* unless the shape's size is the length of the blob, 3 * width * height
TensorFits(shape) ==
  shape[1] * shape[2] * shape[3] * shape[4] = 3 * shape[3] * shape[4]

\* detect.js:19-45  detectImage called with image, topk k, thresholds iou and
\* score and input shape: up to the await of session.net.run
DetectImage(p, image, k, iou, score, shape) ==
  /\ pc[p] = "idle"
  /\ loc' = [loc EXCEPT ![p] = DetectLocals(image, k, iou, score, shape)]
  /\ canvas' = BlankCanvas
  /\ input' = [input EXCEPT ![p] = "live"]
  /\ IF TensorFits(shape)
     THEN /\ log' = Append(log, CallEv(p, "net"))
          /\ pc' = [pc EXCEPT ![p] = "net"]
     ELSE /\ log' = log
          /\ pc' = [pc EXCEPT ![p] = "aborted"]
  /\ UNCHANGED nextId

\* <<topk, iouThreshold, scoreThreshold, inputShape>> a caller may pass:
\* App's values, and each of them in turn out of its range
ConfigPool ==
  {<<topk, iouThreshold, scoreThreshold, modelInputShape>>,
   <<0, iouThreshold, scoreThreshold, modelInputShape>>,
   <<topk, 100, scoreThreshold, modelInputShape>>,
   <<topk, iouThreshold, 0, modelInputShape>>,
   <<topk, iouThreshold, scoreThreshold, <<2, 3, 640, 640>>>>}

NextConfig ==
  /\ UNCHANGED <<app, calc>>
  /\ \E p \in Passes :
       \/ \E image \in ImagePool, c \in ConfigPool :
            DetectImage(p, image, c[1], c[2], c[3], c[4])
       \/ NetReturn(p)
       \/ NetFail(p)
       \/ \E selected \in LiveSelectedPool : NmsReturn(p, selected)
       \/ NmsFail(p)
       \/ \E P \in MaskPixelChoices : MaskReturn(p, P)
       \/ MaskFail(p)

SpecConfig == Init /\ [][NextConfig]_vars

(* ------------------------------ the App ------------------------------- *)
\* App.js:9-14  the component as first rendered: session null, OpenCV not
\* yet initialised, no image chosen, nothing loading in the img element
AppStart == [init |-> "wait", session |-> FALSE, image |-> FALSE,
             pending |-> <<0, 0>>]

InitApp ==
  /\ pc = [p \in AllPasses |-> "idle"]
  /\ loc = [p \in AllPasses |-> NoLoc]
  /\ input = [p \in AllPasses |-> "none"]
  /\ canvas = BlankCanvas
  /\ log = <<>>
  /\ nextId = 1
  /\ app = AppStart
  /\ calc = NoCalc

\* the images, selector outputs and mask pixels of the passes the App runs
AppImagePool == {<<640, 640>>, <<320, 640>>}
AppSelectedPool ==
  {[dims |-> <<1, 0, 7>>, data |-> <<>>],
   [dims |-> <<1, 1, 7>>, data |-> <<100, 100, 50, 50, 90, 10, 7>>],
   [dims |-> <<1, 2, 7>>, data |-> <<100, 100, 50, 50, 90, 10, 7,
                                     10, 630, 41, 40, 30, 30, 7>>]}
AppMaskPixels == {{0}}

\* App.js:24-27  OpenCV calls onRuntimeInitialized: the callback runs up to
\* the await of the first InferenceSession.create
RuntimeInitialized ==
  /\ app.init = "wait"
  /\ app' = [app EXCEPT !.init = "net"]
  /\ UNCHANGED <<passVars, calc>>

\* App.js:27-45  the await the callback is suspended at is fulfilled: the
\* three sessions are created in turn, the model is warmed up, and after
\* the warm-up setSession makes the session available
InitStep ==
  /\ app.init \in {"net", "nms", "mask", "warmup"}
  /\ app' = CASE app.init = "net"    -> [app EXCEPT !.init = "nms"]
               [] app.init = "nms"    -> [app EXCEPT !.init = "mask"]
               [] app.init = "mask"   -> [app EXCEPT !.init = "warmup"]
               [] app.init = "warmup" -> [app EXCEPT !.init = "ready",
                                                     !.session = TRUE]
  /\ UNCHANGED <<passVars, calc>>

\* App.js:27-42  the await the callback is suspended at is rejected: the
\* callback ends and session stays null
InitFail ==
  /\ app.init \in {"net", "nms", "mask", "warmup"}
  /\ app' = [app EXCEPT !.init = "failed"]
  /\ UNCHANGED <<passVars, calc>>

\* App.js:97-107  the user picks a file: the img element starts loading it
OnChange(image) ==
  /\ app' = [app EXCEPT !.image = TRUE, !.pending = image]
  /\ UNCHANGED <<passVars, calc>>

\* App.js:120-125  Close image: the img element's src is reset
CloseImage ==
  /\ app.image
  /\ app' = [app EXCEPT !.image = FALSE, !.pending = <<0, 0>>]
  /\ UNCHANGED <<passVars, calc>>

\* detect.js:28-45 with session null: session.net.run throws at line 45,
\* after the canvas was cleared and the image preprocessed; while OpenCV is
\* not initialised preprocessing itself throws at line 33
DetectNoSession(p, image) ==
  /\ pc[p] = "idle"
  /\ loc' = [loc EXCEPT ![p] = IF app.init = "wait" THEN [NoLoc EXCEPT !.image = image]
                                ELSE PassLocals(image)]
  /\ canvas' = BlankCanvas
  /\ input' = [input EXCEPT ![p] = IF app.init = "wait" THEN "none" ELSE "live"]
  /\ pc' = [pc EXCEPT ![p] = "aborted"]
  /\ UNCHANGED <<log, nextId>>

\* App.js:72-82  the img element has loaded the file: onLoad calls
\* detectImage with the session of the current render and does not await
\* it.  Passes are numbered in the order they are started.
OnLoad(p) ==
  /\ app.pending # <<0, 0>>
  /\ \A q \in AllPasses : q < p => pc[q] # "idle"
  /\ IF app.session
     THEN StartPass(p, app.pending)
     ELSE DetectNoSession(p, app.pending)
  /\ app' = [app EXCEPT !.pending = <<0, 0>>]
  /\ UNCHANGED calc

NextApp ==
  \/ RuntimeInitialized
  \/ InitStep
  \/ InitFail
  \/ \E image \in AppImagePool : OnChange(image)
  \/ CloseImage
  \/ \E p \in AllPasses : OnLoad(p)
  \/ /\ UNCHANGED <<app, calc>>
     /\ \E p \in AllPasses :
          \/ NetReturn(p)
          \/ NetFail(p)
          \/ \E selected \in AppSelectedPool : NmsReturn(p, selected)
          \/ NmsFail(p)
          \/ \E P \in AppMaskPixels : MaskReturn(p, P)
          \/ MaskFail(p)

SpecApp == InitApp /\ [][NextApp]_vars

Next ==
  /\ UNCHANGED <<app, calc>>
  /\ \E p \in Passes :
       \/ \E image \in ImagePool : StartPass(p, image)
       \/ NetReturn(p)
       \/ NetFail(p)
       \/ \E selected \in SelectedPool : NmsReturn(p, selected)
       \/ NmsFail(p)
       \/ \E P \in MaskPixelChoices : MaskReturn(p, P)
       \/ MaskFail(p)

Spec == Init /\ [][Next]_vars

NextLive ==
  /\ UNCHANGED <<app, calc>>
  /\ \E p \in Passes :
       \/ \E image \in ImagePool : StartPass(p, image)
       \/ NetReturn(p)
       \/ NetFail(p)
       \/ \E selected \in LiveSelectedPool : NmsReturn(p, selected)
       \/ NmsFail(p)
       \/ \E P \in MaskPixelChoices : MaskReturn(p, P)
       \/ MaskFail(p)

\* every stage call a pass awaits is eventually fulfilled or rejected
Settle ==
  /\ UNCHANGED <<app, calc>>
  /\ \E p \in Passes :
       \/ NetFail(p)
       \/ NmsFail(p)
       \/ MaskFail(p)
       \/ NetReturn(p)
       \/ \E selected \in LiveSelectedPool : NmsReturn(p, selected)
       \/ \E P \in MaskPixelChoices : MaskReturn(p, P)

SpecLive == Init /\ [][NextLive]_vars /\ WF_vars(Settle)

(* ------------------- the helpers on their own -------------------------- *)
\* overflowBoxes is applied to a box and a bound, then to its own result
Coords == (-MaxCoord)..MaxCoord

InitClip ==
  /\ pc = [p \in AllPasses |-> "idle"]
  /\ loc = [p \in AllPasses |-> NoLoc]
  /\ input = [p \in AllPasses |-> "none"]
  /\ canvas = BlankCanvas
  /\ log = <<>>
  /\ nextId = 1
  /\ app = AppReady
  /\ \E x \in Coords, y \in Coords, w \in Coords, h \in Coords, m \in Coords :
       calc = [NoCalc EXCEPT !.fn = "overflowBoxes", !.arg = <<<<x, y, w, h>>, m>>]

ClipOnce ==
  /\ calc.fn = "overflowBoxes" /\ calc.step = 0
  /\ calc' = [calc EXCEPT !.step = 1,
                          !.out = overflowBoxes(calc.arg[1], calc.arg[2])]
  /\ UNCHANGED <<passVars, app>>

ClipTwice ==
  /\ calc.fn = "overflowBoxes" /\ calc.step = 1
  /\ calc' = [calc EXCEPT !.step = 2,
                          !.again = overflowBoxes(calc.out, calc.arg[2])]
  /\ UNCHANGED <<passVars, app>>

NextClip == ClipOnce \/ ClipTwice

SpecClip == InitClip /\ [][NextClip]_vars

\* divStride is applied to a stride, a width and a height
Strides == (1..MaxStride) \cup {Stride}

InitStride ==
  /\ pc = [p \in AllPasses |-> "idle"]
  /\ loc = [p \in AllPasses |-> NoLoc]
  /\ input = [p \in AllPasses |-> "none"]
  /\ canvas = BlankCanvas
  /\ log = <<>>
  /\ nextId = 1
  /\ app = AppReady
  /\ \E s \in Strides, w \in 0..MaxDim, h \in 0..MaxDim :
       calc = [NoCalc EXCEPT !.fn = "divStride", !.arg = <<s, w, h>>]

StrideApply ==
  /\ calc.fn = "divStride" /\ calc.step = 0
  /\ calc' = [calc EXCEPT !.step = 1,
                          !.out = divStride(calc.arg[1], calc.arg[2], calc.arg[3])]
  /\ UNCHANGED <<passVars, app>>

NextStride == StrideApply

SpecStride == InitStride /\ [][NextStride]_vars

(* ----------------------- reading the log ------------------------------- *)
\* positions in the log of the events of pass p with the given kind and stage
Positions(p, ev, stage) ==
  {i \in 1..Len(log) : log[i].pass = p /\ log[i].ev = ev /\ log[i].stage = stage}

Stages == {"net", "nms", "mask"}

\* calls of pass p issued within the first i log entries and not yet settled
Outstanding(p, i) ==
  Cardinality({j \in 1..i : log[j].pass = p /\ log[j].ev = "call"})
    - Cardinality({j \in 1..i : log[j].pass = p /\ log[j].ev \in {"ret", "fail"}})

\* the k-th (1-based) position of a set of log positions, in log order
Nth(S, k) == CHOOSE i \in S : Cardinality({j \in S : j <= i}) = k

\* passes that have been started
Started == {p \in AllPasses : pc[p] # "idle"}

(* ------------------------------ claims --------------------------------- *)

\* C1: in every pass the detector stage is called exactly once and returns
\* before the selector stage is called exactly once, and the selector
\* returns before any mask-generator call is issued.
C1_StageOrder ==
  \A p \in AllPasses :
    /\ Cardinality(Positions(p, "call", "net")) = (IF p \in Started THEN 1 ELSE 0)
    /\ Cardinality(Positions(p, "call", "nms")) <= 1
    /\ pc[p] \in {"nms", "mask", "done"} => Cardinality(Positions(p, "call", "nms")) = 1
    /\ \A j \in Positions(p, "call", "nms") :
         \E i \in Positions(p, "ret", "net") : i < j
    /\ \A j \in Positions(p, "call", "mask") :
         /\ \E i \in Positions(p, "ret", "nms") : i < j
         /\ \A i \in Positions(p, "call", "net") \cup Positions(p, "call", "nms") : i < j

\* a pass that went through all three stages, the mask stage twice or more
C1_Witness ==
  \E p \in AllPasses :
    pc[p] = "done" /\ Cardinality(Positions(p, "call", "mask")) >= 2

\* C2: the overlay forms one ownership chain: the first mask call gets the
\* zero-filled modelHeight x modelWidth x 4 buffer, the k-th mask call gets
\* the output of the (k-1)-th, the canvas gets the output of the last, and no
\* overlay tensor is given to two mask calls.
C2_OverlayChain ==
  /\ \A p \in AllPasses :
       LET calls == Positions(p, "call", "mask")
           rets  == Positions(p, "ret", "mask")
           m     == Cardinality(calls)
       IN  /\ m >= 1 =>
                LET o == log[Nth(calls, 1)].ovl
                IN  /\ o.dims = <<loc[p].modelHeight, loc[p].modelWidth, 4>>
                    /\ o.len = loc[p].modelHeight * loc[p].modelWidth * 4
                    /\ o.px = {}
           /\ \A k \in 2..m :
                /\ Cardinality(rets) >= k - 1
                /\ log[Nth(calls, k)].ovl = log[Nth(rets, k - 1)].ovl
           /\ (canvas.put /\ canvas.by = p /\ m >= 1) =>
                /\ Cardinality(rets) = m
                /\ canvas.from = log[Nth(rets, m)].ovl.id
                /\ canvas.px = log[Nth(rets, m)].ovl.px
                /\ canvas.len = log[Nth(rets, m)].ovl.len
  /\ \A i, j \in 1..Len(log) :
       (/\ i # j
        /\ log[i].ev = "call" /\ log[i].stage = "mask"
        /\ log[j].ev = "call" /\ log[j].stage = "mask")
       => log[i].ovl.id # log[j].ovl.id

\* a rendered pass of two or more mask calls whose last call painted
C2_Witness ==
  \E p \in AllPasses :
    /\ pc[p] = "done" /\ canvas.put /\ canvas.by = p
    /\ Cardinality(Positions(p, "call", "mask")) >= 2
    /\ canvas.px # {}

\* C3: within a pass at most one inference call is outstanding at any time,
\* and the mask call for row k+1 is issued only after the mask call for row
\* k has returned.
C3_OneOutstanding ==
  \A p \in AllPasses :
    /\ \A i \in 0..Len(log) : Outstanding(p, i) \in {0, 1}
    /\ \A j \in Positions(p, "call", "mask") :
         log[j].row >= 1 =>
           \E i \in Positions(p, "ret", "mask") :
             i < j /\ log[i].row = log[j].row - 1

\* the mask call of a second row is outstanding
C3_Witness ==
  \E p \in AllPasses :
    /\ pc[p] = "mask" /\ loc[p].idx >= 1
    /\ Outstanding(p, Len(log)) = 1

(* the decoder as section 4.4 states it, for comparison with the code *)
\* row k (0-based) of a selector output read as a matrix
Row(selected, k) ==
  [j \in 1..selected.dims[3] |-> selected.data[k * selected.dims[3] + j]]

\* clamp x and y to >= 0, then shrink w to min(w, m - x) and h to min(h, m - y)
ClipBox(b, m) ==
  LET x == Max(b[1], 0)
      y == Max(b[2], 0)
  IN  <<x, y, Min(b[3], m - x), Min(b[4], m - y)>>

\* clip([cx - w/2, cy - h/2, w, h], m), in half units
CornerBox(row, m) ==
  ClipBox(<<2 * row[1] - row[3], 2 * row[2] - row[4], 2 * row[3], 2 * row[4]>>, 2 * m)

\* floor(v * ratio) for v in half units and the floating-point ratio
\* num / den: the floor of the double product
FloorScaled(v, ratio) == MathFloor(Times(HalfDouble(v), Divide(ratio[1], ratio[2])))

\* clip([floor(x*xRatio), floor(y*yRatio), floor(w*xRatio), floor(h*yRatio)], m)
ExpectedBox(row, m, xRatio, yRatio) ==
  CHOOSE clipped \in
    {ClipBox(b, m) :
       b \in {<<FloorScaled(c[1], xRatio), FloorScaled(c[2], yRatio),
                FloorScaled(c[3], xRatio), FloorScaled(c[4], yRatio)>> :
                 c \in {CornerBox(row, m)}}} : TRUE

\* the class scores and the mask coefficients of a row
RowScores(row) == {row[j] : j \in 5..Min(4 + numClass, Len(row))}
RowCoeffs(row) == [j \in 1..(Len(row) - Min(4 + numClass, Len(row))) |->
                     row[Min(4 + numClass, Len(row)) + j]]

\* C4: a successful pass over n selector rows produces exactly n Detections
\* and exactly n mask calls, the k-th of each derived from row k.
C4_OrderPreserving ==
  \A p \in AllPasses :
    pc[p] = "done" =>
      LET l     == loc[p]
          n     == l.selected.dims[2]
          calls == Positions(p, "call", "mask")
      IN  /\ Len(l.boxes) = n
          /\ Cardinality(calls) = n
          /\ \A k \in 0..(n - 1) :
               LET row == Row(l.selected, k)
                   det == l.boxes[k + 1]
                   c   == log[Nth(calls, k + 1)]
               IN  /\ det.bounding = ExpectedBox(row, l.maxSize, l.xRatio, l.yRatio)
                   /\ det.probability \in RowScores(row)
                   /\ \A sc \in RowScores(row) : sc <= det.probability
                   /\ row[5 + det.label] = det.probability
                   /\ c.row = k
                   /\ c.det = CornerBox(row, l.maxSize) \o RowCoeffs(row)
                   /\ SubSeq(c.cfg, 2, 5) = det.bounding

\* a successful pass over two or more rows, the first two of them different
C4_Witness ==
  \E p \in AllPasses :
    /\ pc[p] = "done"
    /\ loc[p].selected.dims[2] >= 2
    /\ Row(loc[p].selected, 0) # Row(loc[p].selected, 1)
    /\ loc[p].boxes[1] # loc[p].boxes[2]

\* C5: when a stage call of a pass fails the pass aborts: no further stage
\* is called for it and neither an overlay nor any Detection of it reaches
\* the canvas.
C5_NoPartialResults ==
  \A p \in AllPasses :
    /\ \A i \in 1..Len(log) :
         (log[i].pass = p /\ log[i].ev = "fail") =>
           /\ pc[p] = "aborted"
           /\ \A j \in (i + 1)..Len(log) : log[j].pass # p
    /\ pc[p] = "aborted" =>
         /\ canvas.by # p
         /\ \E i \in 1..Len(log) : log[i].pass = p /\ log[i].ev = "fail"

\* the mask call of a later row failed after a Detection had been decoded
C5_Witness ==
  \E p \in AllPasses :
    /\ pc[p] = "aborted"
    /\ log[Len(log)] = FailEv(p, "mask", 1)
    /\ Len(loc[p].boxes) = 2

\* C6: whenever a pass ends, rendered or aborted, its input matrix has been
\* released.
C6_CleanupOnEveryExit ==
  \A p \in AllPasses :
    pc[p] \in {"done", "aborted"} => input[p] = "deleted"

\* C7: every emitted box is non-negative and inside the square frame, for
\* rows whose centre lies in [0, maxSize] with w, h >= 0 and ratios >= 1.
C7_BoxInFrame ==
  \A p \in AllPasses :
    \A k \in 1..Len(loc[p].boxes) :
      LET l   == loc[p]
          row == Row(l.selected, k - 1)
          b   == l.boxes[k].bounding
      IN  (/\ row[1] >= 0 /\ row[1] <= l.maxSize
           /\ row[2] >= 0 /\ row[2] <= l.maxSize
           /\ row[3] >= 0 /\ row[4] >= 0
           /\ l.xRatio[1] >= l.xRatio[2] /\ l.yRatio[1] >= l.yRatio[2])
          => /\ b[1] >= 0 /\ b[2] >= 0 /\ b[3] >= 0 /\ b[4] >= 0
             /\ b[1] + b[3] <= l.maxSize
             /\ b[2] + b[4] <= l.maxSize

\* C8: the emitted box is clip(floor(box * ratio), maxSize) of the clipped
\* corner box; the row [100,100,50,50, 0.9,0.1] with two classes and both
\* ratios 1 decodes to label 0, probability 0.9 and box [75,75,50,50].
C8_DecodeFormula ==
  \A p \in AllPasses :
    \A k \in 1..Len(loc[p].boxes) :
      LET l   == loc[p]
          row == Row(l.selected, k - 1)
          det == l.boxes[k]
      IN  /\ det.bounding = ExpectedBox(row, l.maxSize, l.xRatio, l.yRatio)
          /\ (/\ Len(row) >= 6
              /\ SubSeq(row, 1, 6) = <<100, 100, 50, 50, 90, 10>>
              /\ l.xRatio[1] = l.xRatio[2]
              /\ l.yRatio[1] = l.yRatio[2])
             => /\ det.label = 0
                /\ det.probability = 90
                /\ det.bounding = <<75, 75, 50, 50>>

\* the scenario row has been decoded with both ratios 1, and after it a row
\* that both clips changed (x raised to 0, h cut at the frame)
C8_Witness ==
  \E p \in AllPasses :
    LET l == loc[p]
    IN  /\ Len(l.boxes) = 2
        /\ l.selected.dims[3] >= 6
        /\ SubSeq(Row(l.selected, 0), 1, 6) = <<100, 100, 50, 50, 90, 10>>
        /\ l.xRatio = <<640, 640>> /\ l.yRatio = <<640, 640>>
        /\ l.boxes[1].bounding = <<75, 75, 50, 50>>
        /\ SubSeq(Row(l.selected, 1), 1, 4) = <<10, 630, 41, 40>>
        /\ l.boxes[2].bounding = <<0, 610, 41, 30>>

\* C9: with zero selector rows the pass issues no mask call, produces an
\* empty Detection list and delivers an all-zero overlay of
\* modelHeight x modelWidth x 4 bytes.
C9_ZeroRows ==
  \A p \in AllPasses :
    (pc[p] = "done" /\ loc[p].selected.dims[2] = 0) =>
      /\ Positions(p, "call", "mask") = {}
      /\ loc[p].boxes = <<>>
      /\ canvas.by = p =>
           /\ canvas.put
           /\ canvas.boxes = <<>>
           /\ canvas.len = loc[p].modelHeight * loc[p].modelWidth * 4
           /\ canvas.width * canvas.height * 4 = canvas.len
           /\ canvas.px = {}

\* a pass over zero rows has rendered
C9_Witness ==
  \E p \in AllPasses :
    /\ pc[p] = "done" /\ loc[p].selected.dims[2] = 0
    /\ canvas.put /\ canvas.by = p

\* C10: a selector row with fewer than 4 + numClass elements aborts the
\* pass: no Detection is emitted for it, no mask call is issued for it and
\* nothing is rendered.
C10_ShortRowFatal ==
  \A p \in AllPasses :
    (loc[p].selected.dims[2] > 0 /\ loc[p].selected.dims[3] < 4 + numClass) =>
      /\ loc[p].boxes = <<>>
      /\ Positions(p, "call", "mask") = {}
      /\ pc[p] # "done"

\* C13: for every box and bound m, overflowBoxes(box, m) has 0 <= x,
\* 0 <= y, x + w <= m and y + h <= m.
C13_ClipInBound ==
  (calc.fn = "overflowBoxes" /\ calc.step >= 1) =>
    /\ calc.out[1] >= 0
    /\ calc.out[2] >= 0
    /\ calc.out[1] + calc.out[3] <= calc.arg[2]
    /\ calc.out[2] + calc.out[4] <= calc.arg[2]

\* a box that reached past the bound on both axes has been clipped
C13_Witness ==
  /\ calc.fn = "overflowBoxes" /\ calc.step = 1
  /\ calc.arg = << <<2, 1, 3, 3>>, 3 >>
  /\ calc.out = <<2, 1, 1, 2>>

\* C14: overflowBoxes is idempotent: clipping a clipped box with the same
\* bound changes none of its four components.
C14_ClipIdempotent ==
  (calc.fn = "overflowBoxes" /\ calc.step = 2) => calc.again = calc.out

\* a box the first clip changed in all four components has been clipped twice
C14_Witness ==
  /\ calc.fn = "overflowBoxes" /\ calc.step = 2
  /\ \A i \in 1..4 : calc.out[i] # calc.arg[1][i]
  /\ calc.again = calc.out

\* C15: each dimension divStride returns is divisible by the stride and
\* differs from the input by less than the stride; it is the multiple above
\* exactly when the remainder is >= stride/2, the multiple below otherwise.
C15_StrideRounding ==
  (calc.fn = "divStride" /\ calc.step = 1) =>
    \A i \in 1..2 :
      LET s == calc.arg[1]
          d == calc.arg[i + 1]
          r == d % s
          o == calc.out[i]
      IN  /\ o % s = 0
          /\ o - d < s /\ d - o < s
          /\ 2 * r >= s => o = d - r + s
          /\ 2 * r < s => o = d - r

\* one dimension was rounded up from an exact half, the other rounded down
C15_Witness ==
  /\ calc.fn = "divStride" /\ calc.step = 1
  /\ calc.arg = <<4, 6, 5>>
  /\ calc.out = <<8, 4>>

\* C19: for width >= 1, height >= 1 and stride 32, divStride returns a
\* width and a height that are both >= 1.
C19_StrideNonEmpty ==
  (/\ calc.fn = "divStride" /\ calc.step = 1
   /\ calc.arg[1] = Stride /\ calc.arg[2] >= 1 /\ calc.arg[3] >= 1)
  => calc.out[1] >= 1 /\ calc.out[2] >= 1

\* C16: the Detection's probability is the maximum of the row's class
\* scores and its label the smallest class index attaining that maximum.
C16_MaxAndArgmax ==
  \A p \in AllPasses :
    \A k \in 1..Len(loc[p].boxes) :
      LET row     == Row(loc[p].selected, k - 1)
          det     == loc[p].boxes[k]
          classes == 0..(Min(numClass, Len(row) - 4) - 1)
      IN  /\ det.label \in classes
          /\ row[5 + det.label] = det.probability
          /\ \A c \in classes : row[5 + c] <= det.probability
          /\ \A c \in classes : c < det.label => row[5 + c] < det.probability

\* a row whose two scores tie and a row whose second score is the maximum
\* have both been decoded
C16_Witness ==
  \E p \in AllPasses :
    LET l == loc[p]
    IN  /\ Len(l.boxes) = 2
        /\ l.selected.dims[3] >= 4 + numClass
        /\ SubSeq(Row(l.selected, 0), 5, 6) = <<30, 30>>
        /\ l.boxes[1].label = 0
        /\ SubSeq(Row(l.selected, 1), 5, 6) = <<10, 90>>
        /\ l.boxes[2].label = 1

\* C20: every started pass eventually ends (rendered or aborted) when each
\* stage call eventually returns or fails; a pass over n rows issues at most
\* n mask calls and its row index grows by one on every iteration.
C20_Terminates ==
  /\ \A p \in AllPasses : (pc[p] # "idle") ~> (pc[p] \in {"done", "aborted"})
  /\ [](\A p \in AllPasses :
          /\ Cardinality(Positions(p, "call", "mask")) <= loc[p].selected.dims[2]
          /\ \A i, j \in Positions(p, "call", "mask") :
               i < j => log[i].row < log[j].row)
  /\ [][\A p \in AllPasses :
          (pc[p] = "mask" /\ pc'[p] \in {"mask", "done"})
          => loc'[p].idx = loc[p].idx + 1]_vars

\* a pass over the most rows has ended after one mask call per row
C20_Witness ==
  \E p \in AllPasses :
    /\ pc[p] = "done"
    /\ loc[p].selected.dims[2] = MaxRows
    /\ Cardinality(Positions(p, "ret", "mask")) = MaxRows
    /\ loc[p].idx = MaxRows

\* C11: a pass given batch # 1, topk <= 0, iouThreshold outside (0,1) or
\* scoreThreshold outside (0,1) is rejected before any inference stage is
\* called.
C11_ConfigValidated ==
  \A p \in Started :
    LET c == loc[p].config
    IN  (\/ loc[p].inputShape[1] # 1
         \/ c[2] <= 0
         \/ c[3] <= 0 \/ c[3] >= 100
         \/ c[4] <= 0 \/ c[4] >= 100)
        => \A i \in 1..Len(log) : log[i].pass # p

\* C18: no pass is started before the session is available: whenever
\* detectImage has been invoked the three sessions have been created, the
\* warm-up has completed and session is non-null.
C18_SessionBeforePass ==
  Started # {} => (app.session /\ app.init = "ready")

\* C17: when a second image was loaded while the pass of an earlier image
\* was in flight, then once both passes have finished the canvas shows the
\* result of the image loaded last.
Overlapped(first, second) ==
  \E i \in Positions(second, "call", "net") :
    \E j \in (i + 1)..Len(log) : log[j].pass = first

C17_LastImageShown ==
  (pc[1] = "done" /\ pc[2] = "done" /\ Overlapped(1, 2)) =>
    /\ canvas.by = 2
    /\ canvas.boxes = loc[2].boxes
    /\ canvas.from = loc[2].overlay.id

\* pass p takes the step: its position changes or it adds to the log
Acts(p) ==
  \/ pc'[p] # pc[p]
  \/ \E i \in (Len(log) + 1)..Len(log') : log'[i].pass = p

InFlight(p) == pc[p] \in {"net", "nms", "mask"}

\* no overlay tensor given to a mask call of one pass was given to or
\* returned by a mask call of another, nor is it another pass's overlay
OwnOverlays ==
  \A p, q \in AllPasses :
    p # q =>
      /\ \A i \in Positions(p, "call", "mask") :
           \A j \in 1..Len(log) :
             (log[j].pass = q /\ log[j].stage = "mask")
             => log[j].ovl.id # log[i].ovl.id
      /\ loc[p].overlay.id # 0 => loc[p].overlay.id # loc[q].overlay.id

\* a step leaves the position, the locals and the input of every pass that
\* does not take it as they were
OwnLocals ==
  \A q \in AllPasses :
    ~Acts(q) => (pc'[q] = pc[q] /\ loc'[q] = loc[q] /\ input'[q] = input[q])

\* a step leaves the canvas of a pass in flight that does not take it as it
\* was
OwnCanvas ==
  \A q \in AllPasses : (InFlight(q) /\ ~Acts(q)) => canvas' = canvas

\* C12 as stated: when two passes interleave, each pass uses only the
\* tensors and overlay it allocated itself, and the colour palette is the
\* only state the two passes share.
C12_PaletteOnlyShared == [][OwnOverlays' /\ OwnLocals /\ OwnCanvas]_vars

\* C12 amended: when two passes interleave, each pass uses only the tensors
\* and overlay it allocated itself and no pass changes the locals or the
\* input of the other; the canvas is shared.
C12_OwnTensors == [][OwnOverlays' /\ OwnLocals]_vars

\* both passes are in the mask stage, each with an overlay a mask call of
\* its own returned
C12_Witness ==
  /\ pc[1] = "mask" /\ pc[2] = "mask"
  /\ loc[1].idx >= 1 /\ loc[2].idx >= 1
  /\ loc[1].overlay.id # loc[2].overlay.id

====
